---- MODULE Spec2Model ----
(***************************************************************************)
(* The five analysis scripts of the repository as one state machine.       *)
(* A behaviour runs ONE script (variable script): it loads a CSV table,    *)
(* validates its columns and then calls the methods of the script's        *)
(* object in any order.                                                    *)
(*                                                                         *)
(* Numbers.  CSV cells are integers; the decimal attributes of the         *)
(* packaging example (Recyclability 0.2, Durability 0.8, weights 0.3 ...)  *)
(* are written in tenths, which min-max normalisation, the sign of a       *)
(* weight and every comparison leave unchanged.  A derived float is the    *)
(* exact fraction n/d, or NaN, or +-inf, as pandas/numpy produce them.     *)
(***************************************************************************)
EXTENDS Integers, Sequences, FiniteSets, TLC

VARIABLES
    script,      \* which script this behaviour runs
    input,       \* the CSV file(s) given to the script: [data, regs]
    obj,         \* "none" before construction, "live", or "failed" (ctor raised)
    data,        \* self.data / df : the object's table
    results,     \* self.optimized_results / self.simulation_results (attribute may be unset)
    outFile,     \* the output CSV file on disk
    last,        \* the most recent call and its outcome
    scored,      \* history: the scoring stage has completed successfully on this object
    checks,      \* number of check_compliance() calls made so far
    solverErr,   \* per row, the convergence error of the numerical solver
    pool,        \* the ThreadPoolExecutor of a simulate() call in progress
    chart        \* the bars of the last circularity chart, in plotted order

vars == <<script, input, obj, data, results, outFile, last, scored, checks, solverErr,
          pool, chart>>

\* fixed once the behaviour has started
env == <<script, input, solverErr>>

----------------------------------------------------------------------------
(* Bounds of the model *)

MaxRows == 2        \* rows of a packaging / lifecycle table
MaxKpiRows == 2     \* rows of a KPI table
MaxDataRows == 2    \* rows of a compliance data table
MaxRegRows == 2     \* rows of a regulations table
MaxCircRows == 2    \* rows of a circularity table
MaxChecks == 2      \* calls of check_compliance() on one validator

----------------------------------------------------------------------------
(* Cells: every cell of a table is a record of one shape *)

Str(s) == [k |-> "str", s |-> s, n |-> 0, d |-> 1]
Num(n) == [k |-> "num", s |-> "", n |-> n, d |-> 1]
Frac(n, d) == [k |-> "num", s |-> "", n |-> n, d |-> d]
NaN == [k |-> "nan", s |-> "", n |-> 0, d |-> 0]
Inf(sign) == [k |-> "inf", s |-> "", n |-> sign, d |-> 0]
\* n / sqrt(d): a value standardised by a column's standard deviation
Root(n, d) == [k |-> "root", s |-> "", n |-> n, d |-> d]

IsNum(c) == c.k = "num"
IsNaN(c) == c.k = "nan"

\* float comparison a < b ; every comparison with NaN is false
CellLt(a, b) ==
    CASE IsNaN(a) \/ IsNaN(b) -> FALSE
      [] a.k = "inf" /\ b.k = "inf" -> a.n < b.n
      [] a.k = "inf" -> a.n < 0
      [] b.k = "inf" -> b.n > 0
      [] OTHER -> a.n * b.d < b.n * a.d

\* float comparison a >= b
CellGe(a, b) ==
    CASE IsNaN(a) \/ IsNaN(b) -> FALSE
      [] a.k = "inf" /\ b.k = "inf" -> a.n >= b.n
      [] a.k = "inf" -> a.n > 0
      [] b.k = "inf" -> b.n < 0
      [] OTHER -> a.n * b.d >= b.n * a.d

\* a - b on numbers
CellSub(a, b) ==
    IF IsNaN(a) \/ IsNaN(b) THEN NaN
    ELSE Frac(a.n * b.d - b.n * a.d, a.d * b.d)

\* a / b as numpy divides: x/0 is +-inf, 0/0 is NaN, no exception
CellDiv(a, b) ==
    CASE IsNaN(a) \/ IsNaN(b) -> NaN
      [] b.n = 0 /\ a.n = 0 -> NaN
      [] b.n = 0 -> Inf(IF a.n > 0 THEN 1 ELSE -1)
      [] b.n > 0 -> Frac(a.n * b.d, a.d * b.n)
      [] OTHER -> Frac(-(a.n * b.d), -(a.d * b.n))

\* a * k for an integer k
CellScale(a, k) ==
    CASE IsNaN(a) -> NaN
      [] a.k = "inf" -> Inf(IF k > 0 THEN a.n ELSE -a.n)
      [] OTHER -> Frac(a.n * k, a.d)

----------------------------------------------------------------------------
(* Tables (DataFrames): ordered column names, and per column its cells in  *)
(* row order                                                                *)

Range(s) == {s[i] : i \in DOMAIN s}

EmptyTable == [cols |-> <<>>, val |-> <<>>]

HasCol(t, c) == c \in Range(t.cols)

NRows(t) == IF t.cols = <<>> THEN 0 ELSE Len(t.val[t.cols[1]])

\* df[c] = vals : replaces the column in place, or appends it as the last column
SetColumn(t, c, vals) ==
    [cols |-> IF HasCol(t, c) THEN t.cols ELSE Append(t.cols, c),
     val |-> (c :> vals) @@ t.val]

\* the table without column c
DropColumn(t, c) ==
    [cols |-> SelectSeq(t.cols, LAMBDA x : x # c),
     val |-> [x \in (DOMAIN t.val) \ {c} |-> t.val[x]]]

\* the table with its columns in reverse order
ReverseColumns(t) ==
    [cols |-> [i \in DOMAIN t.cols |-> t.cols[Len(t.cols) + 1 - i]],
     val |-> t.val]

\* the table with the given columns whose rows are the given tuples of cells
MakeTable(cols, rows) ==
    [cols |-> cols,
     val |-> [c \in Range(cols) |->
                [i \in DOMAIN rows |-> rows[i][CHOOSE k \in DOMAIN cols : cols[k] = c]]]]

SeqsUpTo(S, lo, hi) == UNION {[1..n -> S] : n \in lo..hi}

----------------------------------------------------------------------------
(* Errors and call outcomes *)

NoErr == [type |-> "", msg |-> "", names |-> <<>>]
Err(type, msg, names) == [type |-> type, msg |-> msg, names |-> names]

Ok(op, w) == [op |-> op, ok |-> TRUE, err |-> NoErr, w |-> w]
Raised(op, w, e) == [op |-> op, ok |-> FALSE, err |-> e, w |-> w]

NoResults == [set |-> FALSE, list |-> <<>>]
NoFile == [written |-> FALSE, cols |-> <<>>, val |-> <<>>]

----------------------------------------------------------------------------
(* Column validation, shared shape of the four _validate_data loops *)

MinOf(S) == CHOOSE m \in S : \A x \in S : m <= x

\* the loop stops one name short of the end of the list
FirstMissingButLast(t, required) ==
    LET miss == {i \in 1..(Len(required) - 1) : ~HasCol(t, required[i])}
    IN  IF miss = {} THEN 0 ELSE MinOf(miss)

\* index of the first name of required that is no column of t, 0 when none is missing
FirstMissing(t, required) ==
    LET miss == {i \in DOMAIN required : ~HasCol(t, required[i])}
    IN  IF miss = {} THEN 0 ELSE MinOf(miss)

\* for col in required_columns: if col not in columns: raise ValueError(msg + col)
ValidateLoop(t, required, msg) ==
    LET i == FirstMissing(t, required)
    IN  IF i = 0 THEN NoErr ELSE Err("ValueError", msg, <<required[i]>>)

----------------------------------------------------------------------------
(* Min-max normalisation (Optimizer and Simulator: the same loop) *)

\* col.min() and col.max() of a column of numbers; NaN for a column without rows
ColMin(vals) ==
    IF vals = <<>> THEN NaN
    ELSE vals[CHOOSE i \in DOMAIN vals : \A j \in DOMAIN vals : ~CellLt(vals[j], vals[i])]

ColMax(vals) ==
    IF vals = <<>> THEN NaN
    ELSE vals[CHOOSE i \in DOMAIN vals : \A j \in DOMAIN vals : ~CellLt(vals[i], vals[j])]

\* (col - col.min()) / col.max() : the range taken from zero
NormalizedByMax(vals) ==
    LET lo == ColMin(vals)
        hi == ColMax(vals)
    IN  [i \in DOMAIN vals |-> CellDiv(CellSub(vals[i], lo), hi)]

\* (col - col.min()) / (col.max() - col.min())
NormalizedColumn(vals) ==
    LET lo == ColMin(vals)
        hi == ColMax(vals)
    IN  [i \in DOMAIN vals |-> CellDiv(CellSub(vals[i], lo), CellSub(hi, lo))]

NormalizedName(col) ==
    CASE col = "Cost_per_unit" -> "Cost_per_unit_normalized"
      [] col = "Recyclability" -> "Recyclability_normalized"
      [] col = "Carbon_Footprint" -> "Carbon_Footprint_normalized"
      [] col = "Durability" -> "Durability_normalized"
      [] col = "Cost" -> "Cost_normalized"
      [] col = "Water_Usage" -> "Water_Usage_normalized"
      [] col = "Energy_Consumption" -> "Energy_Consumption_normalized"

\* the loop of normalize_columns from column i on: a column holding a
\* non-numeric cell makes the subtraction raise TypeError, after the
\* normalized columns of the earlier columns have been stored
RECURSIVE NormalizeFrom(_, _, _)
NormalizeFrom(t, columns, i) ==
    IF i > Len(columns) THEN [data |-> t, err |-> NoErr]
    ELSE LET col == columns[i]
         IN  IF ~HasCol(t, col) THEN NormalizeFrom(t, columns, i + 1)
             ELSE IF \E j \in DOMAIN t.val[col] : ~IsNum(t.val[col][j])
                  THEN [data |-> t,
                        err |-> Err("TypeError", "unsupported operand type(s) for -", <<col>>)]
                  ELSE NormalizeFrom(
                           SetColumn(t, NormalizedName(col), NormalizedColumn(t.val[col])),
                           columns, i + 1)

----------------------------------------------------------------------------
(* The bounded minimisation and the ranking *)

\* the corners of the box bounds=[(0, 1)] * 4
Corners == [1..4 -> {0, 1}]

\* a score: res.fun, the value v (in tenths) plus the solver's convergence error e
NaNScore == [nan |-> TRUE, v |-> 0, e |-> 0]
Score(v, e) == [nan |-> FALSE, v |-> v, e |-> e]

\* float comparison of two scores; every comparison with NaN is false
ScoreLt(a, b) ==
    /\ ~a.nan
    /\ ~b.nan
    /\ (a.v < b.v \/ (a.v = b.v /\ a.e < b.e))

\* the convergence errors the solver may leave on a row
SolverErrs == {0, 1}

\* scipy.optimize.minimize(objective, x0, bounds=[(0,1)]*4).fun for a linear
\* objective whose least value over the corners of the box is fmin: the box
\* minimum, reached up to the solver's error e; NaN when the starting point
\* holds a NaN (every evaluation of the objective is then NaN)
Minimize(fmin, x0, e) ==
    IF \E i \in DOMAIN x0 : IsNaN(x0[i]) THEN NaNScore ELSE Score(fmin, e)

\* sorted(..., reverse=True): x goes after every element that is not smaller
InsertByScoreDescending(s, x) ==
    LET later == {j \in DOMAIN s : ScoreLt(s[j][2], x[2])}
        at == IF later = {} THEN Len(s) + 1 ELSE MinOf(later)
    IN  SubSeq(s, 1, at - 1) \o <<x>> \o SubSeq(s, at, Len(s))

\* an insertion that puts x before the elements equal to it
InsertByScoreBeforeEqual(s, x) ==
    LET later == {j \in DOMAIN s : ~ScoreLt(s[j][2], x[2])}
        at == IF later = {} THEN Len(s) + 1 ELSE MinOf(later)
    IN  SubSeq(s, 1, at - 1) \o <<x>> \o SubSeq(s, at, Len(s))

\* sorted(results, key=lambda x: x[1]): stable, ascending; x goes after every
\* element that is not greater than it
InsertByScore(s, x) ==
    LET later == {j \in DOMAIN s : ScoreLt(x[2], s[j][2])}
        at == IF later = {} THEN Len(s) + 1 ELSE MinOf(later)
    IN  SubSeq(s, 1, at - 1) \o <<x>> \o SubSeq(s, at, Len(s))

RECURSIVE SortedFrom(_, _, _)
SortedFrom(acc, l, i) ==
    IF i > Len(l) THEN acc ELSE SortedFrom(InsertByScore(acc, l[i]), l, i + 1)

Sorted(l) == SortedFrom(<<>>, l, 1)

\* the guard left out
HasAttrAlways(res) == TRUE

\* hasattr(self, 'optimized_results') / hasattr(self, 'simulation_results')
HasAttr(res) == res.set

\* pd.DataFrame(results, columns=[nameCol, scoreCol]).to_csv(output_file)
ResultsFile(nameCol, scoreCol, list) ==
    [written |-> TRUE,
     cols |-> <<nameCol, scoreCol>>,
     val |-> (nameCol :> [i \in DOMAIN list |-> list[i][1]])
             @@ (scoreCol :> [i \in DOMAIN list |-> list[i][2]])]

\* self.data.to_csv(output_file, index=False)
TableFile(t) == [written |-> TRUE, cols |-> t.cols, val |-> t.val]

----------------------------------------------------------------------------
(* PackagingSustainabilityOptimizer *)

OptRequired == <<"Material", "Cost_per_unit", "Recyclability", "Carbon_Footprint", "Durability">>
OptToNormalize == <<"Cost_per_unit", "Recyclability", "Carbon_Footprint", "Durability">>
OptNormalized == <<"Cost_per_unit_normalized", "Recyclability_normalized",
                   "Carbon_Footprint_normalized", "Durability_normalized">>

\* weight_cost=0.3, weight_recyclability=0.4, weight_carbon_footprint=0.2, weight_durability=0.1
OptDefaultWeights == <<3, 4, 2, 1>>
OptWeightChoices == {OptDefaultWeights, <<-3, 4, 2, 1>>}

Opt_validate_data(t) == ValidateLoop(t, OptRequired, "Missing required column: ")

\* objective_function(x)
OptObjective(w, x) ==
    w[1] * x[1] + w[2] * (1 - x[2]) + w[3] * x[3] + w[4] * (1 - x[4])

OptBoxMin(w) == MinOf({OptObjective(w, x) : x \in Corners})

\* the loop over iterrows(): one (Material, res.fun) per row, in row order
OptRowResults(t, w, errs) ==
    LET fmin == OptBoxMin(w)
    IN  [i \in 1..NRows(t) |->
            <<t.val["Material"][i],
              Minimize(fmin, [k \in 1..4 |-> t.val[OptNormalized[k]][i]], errs[i])>>]

OptConstruct ==
    /\ script = "Optimizer"
    /\ obj = "none"
    /\ LET e == Opt_validate_data(input.data)
       IN  IF e = NoErr
           THEN /\ obj' = "live"
                /\ data' = input.data
                /\ last' = Ok("__init__", <<>>)
           ELSE /\ obj' = "failed"
                /\ data' = EmptyTable
                /\ last' = Raised("__init__", <<>>, e)
    /\ UNCHANGED <<env, pool, chart, results, outFile, scored, checks>>

OptNormalizeColumns ==
    /\ script = "Optimizer"
    /\ obj = "live"
    /\ LET n == NormalizeFrom(data, OptToNormalize, 1)
       IN  /\ data' = n.data
           /\ last' = IF n.err = NoErr THEN Ok("normalize_columns", <<>>)
                      ELSE Raised("normalize_columns", <<>>, n.err)
    /\ UNCHANGED <<env, pool, chart, obj, results, outFile, scored, checks>>

\* optimize() appending to the results of the calls before it
OptOptimizeAppending(w) ==
    /\ script = "Optimizer"
    /\ obj = "live"
    /\ LET n == NormalizeFrom(data, OptToNormalize, 1)
       IN  /\ data' = n.data
           /\ IF n.err = NoErr
              THEN /\ results' = [set |-> TRUE,
                                  list |-> results.list
                                           \o Sorted(OptRowResults(n.data, w, solverErr))]
                   /\ scored' = TRUE
                   /\ last' = Ok("optimize", w)
              ELSE /\ last' = Raised("optimize", w, n.err)
                   /\ UNCHANGED <<results, scored>>
    /\ UNCHANGED <<env, pool, chart, obj, outFile, checks>>

OptOptimize(w) ==
    /\ script = "Optimizer"
    /\ obj = "live"
    /\ LET n == NormalizeFrom(data, OptToNormalize, 1)
       IN  /\ data' = n.data
           /\ IF n.err = NoErr
              THEN /\ results' = [set |-> TRUE,
                                  list |-> Sorted(OptRowResults(n.data, w, solverErr))]
                   /\ scored' = TRUE
                   /\ last' = Ok("optimize", w)
              ELSE /\ last' = Raised("optimize", w, n.err)
                   /\ UNCHANGED <<results, scored>>
    /\ UNCHANGED <<env, pool, chart, obj, outFile, checks>>

\* a method that only reads the results after the hasattr guard
OptShow(op, msg) ==
    /\ script = "Optimizer"
    /\ obj = "live"
    /\ last' = IF HasAttr(results) THEN Ok(op, <<>>)
               ELSE Raised(op, <<>>, Err("ValueError", msg, <<>>))
    /\ UNCHANGED <<env, pool, chart, obj, data, results, outFile, scored, checks>>

OptDisplayResults == OptShow("display_results", "Run optimize() before displaying results.")

OptVisualizeResults == OptShow("visualize_results", "Run optimize() before visualizing results.")

OptVisualizeResultsInteractive ==
    OptShow("visualize_results_interactive", "Run optimize() before visualizing results.")

OptExportResults ==
    /\ script = "Optimizer"
    /\ obj = "live"
    /\ IF HasAttr(results)
       THEN /\ outFile' = ResultsFile("Material", "Score", results.list)
            /\ last' = Ok("export_results", <<>>)
       ELSE /\ last' = Raised("export_results", <<>>,
                              Err("ValueError", "Run optimize() before exporting results.", <<>>))
            /\ UNCHANGED outFile
    /\ UNCHANGED <<env, pool, chart, obj, data, results, scored, checks>>

OptVisualizeMetricBreakdown ==
    /\ script = "Optimizer"
    /\ obj = "live"
    /\ last' = IF \A k \in DOMAIN OptNormalized : HasCol(data, OptNormalized[k])
               THEN Ok("visualize_metric_breakdown", <<>>)
               ELSE Raised("visualize_metric_breakdown", <<>>,
                           Err("ValueError", "Normalized columns are missing. Run normalize_columns() before visualizing metrics.", <<>>))
    /\ UNCHANGED <<env, pool, chart, obj, data, results, outFile, scored, checks>>

----------------------------------------------------------------------------
(* LifecycleImpactSimulator *)

SimRequired == <<"Stage", "Cost", "Carbon_Footprint", "Water_Usage", "Energy_Consumption">>
SimToNormalize == <<"Cost", "Carbon_Footprint", "Water_Usage", "Energy_Consumption">>
SimNormalized == <<"Cost_normalized", "Carbon_Footprint_normalized",
                   "Water_Usage_normalized", "Energy_Consumption_normalized">>

\* weight_cost=0.3, weight_carbon=0.3, weight_water=0.2, weight_energy=0.2
SimDefaultWeights == <<3, 3, 2, 2>>
SimWeightChoices == {SimDefaultWeights, <<3, -3, 2, 2>>}

Sim_validate_data(t) == ValidateLoop(t, SimRequired, "Missing required column: ")

\* objective_function(x)
SimObjective(w, x) == w[1] * x[1] + w[2] * x[2] + w[3] * x[3] + w[4] * x[4]

SimBoxMin(w) == MinOf({SimObjective(w, x) : x \in Corners})

\* list(executor.map(process_row, rows)): one (Stage, res.fun) per row, in row order
SimRowResults(t, w, errs) ==
    LET fmin == SimBoxMin(w)
    IN  [i \in 1..NRows(t) |->
            <<t.val["Stage"][i],
              Minimize(fmin, [k \in 1..4 |-> t.val[SimNormalized[k]][i]], errs[i])>>]

SimConstruct ==
    /\ script = "Simulator"
    /\ obj = "none"
    /\ LET e == Sim_validate_data(input.data)
       IN  IF e = NoErr
           THEN /\ obj' = "live"
                /\ data' = input.data
                /\ last' = Ok("__init__", <<>>)
           ELSE /\ obj' = "failed"
                /\ data' = EmptyTable
                /\ last' = Raised("__init__", <<>>, e)
    /\ UNCHANGED <<env, pool, chart, results, outFile, scored, checks>>

SimNormalizeColumns ==
    /\ script = "Simulator"
    /\ obj = "live"
    /\ LET n == NormalizeFrom(data, SimToNormalize, 1)
       IN  /\ data' = n.data
           /\ last' = IF n.err = NoErr THEN Ok("normalize_columns", <<>>)
                      ELSE Raised("normalize_columns", <<>>, n.err)
    /\ UNCHANGED <<env, pool, chart, obj, results, outFile, scored, checks>>

SimSimulate(w) ==
    /\ script = "Simulator"
    /\ obj = "live"
    /\ LET n == NormalizeFrom(data, SimToNormalize, 1)
       IN  /\ data' = n.data
           /\ IF n.err = NoErr
              THEN /\ results' = [set |-> TRUE,
                                  list |-> Sorted(SimRowResults(n.data, w, solverErr))]
                   /\ scored' = TRUE
                   /\ last' = Ok("simulate", w)
              ELSE /\ last' = Raised("simulate", w, n.err)
                   /\ UNCHANGED <<results, scored>>
    /\ UNCHANGED <<env, pool, chart, obj, outFile, checks>>

SimShow(op, msg) ==
    /\ script = "Simulator"
    /\ obj = "live"
    /\ last' = IF HasAttr(results) THEN Ok(op, <<>>)
               ELSE Raised(op, <<>>, Err("ValueError", msg, <<>>))
    /\ UNCHANGED <<env, pool, chart, obj, data, results, outFile, scored, checks>>

SimDisplayResults == SimShow("display_results", "Run simulate() before displaying results.")

SimVisualizeResults == SimShow("visualize_results", "Run simulate() before visualizing results.")

SimExportResults ==
    /\ script = "Simulator"
    /\ obj = "live"
    /\ IF HasAttr(results)
       THEN /\ outFile' = ResultsFile("Stage", "Impact_Score", results.list)
            /\ last' = Ok("export_results", <<>>)
       ELSE /\ last' = Raised("export_results", <<>>,
                              Err("ValueError", "Run simulate() before exporting results.", <<>>))
            /\ UNCHANGED outFile
    /\ UNCHANGED <<env, pool, chart, obj, data, results, scored, checks>>

----------------------------------------------------------------------------
(* simulate() step by step: the rows are scored by the workers of a         *)
(* ThreadPoolExecutor while the calling thread waits inside simulate()      *)

\* no simulate() call is in progress
IdlePool ==
    [active |-> FALSE, w |-> <<>>, started |-> 0, finished |-> <<>>, value |-> <<>>,
     collected |-> <<>>]

\* process_row(row) for row i: reads the row and the weights, returns a pair
SimProcessRow(t, w, errs, i) ==
    <<t.val["Stage"][i],
      Minimize(SimBoxMin(w), [k \in 1..4 |-> t.val[SimNormalized[k]][i]], errs[i])>>

\* the results taken as the workers complete them
ResultsAsCompleted(value, finished, n) == [k \in 1..n |-> value[finished[k]]]

\* list(executor.map(process_row, rows)): the results of the n tasks in the
\* order the tasks were submitted, whatever the order they finished in
MapResults(value, finished, n) == [i \in 1..n |-> value[i]]

\* simulate() up to the submission of the rows: normalize_columns(), then
\* executor.map queues one task per row
SimSubmit(w) ==
    /\ script = "Simulator"
    /\ obj = "live"
    /\ ~pool.active
    /\ LET n == NormalizeFrom(data, SimToNormalize, 1)
       IN  /\ data' = n.data
           /\ IF n.err = NoErr
              THEN /\ pool' = [IdlePool EXCEPT !.active = TRUE, !.w = w]
                   /\ UNCHANGED last
              ELSE /\ last' = Raised("simulate", w, n.err)
                   /\ UNCHANGED pool
    /\ UNCHANGED <<env, chart, obj, results, outFile, scored, checks>>

\* a worker thread takes the next task of the pool's FIFO work queue
PoolStart ==
    /\ pool.active
    /\ pool.started < NRows(data)
    /\ pool' = [pool EXCEPT !.started = @ + 1]
    /\ UNCHANGED <<env, chart, obj, data, results, outFile, last, scored, checks>>

\* the worker running task i returns: its future holds the pair
PoolFinish(i) ==
    /\ pool.active
    /\ i \in 1..pool.started
    /\ i \notin Range(pool.finished)
    /\ pool' = [pool EXCEPT !.finished = Append(@, i),
                            !.value = (i :> SimProcessRow(data, pool.w, solverErr, i)) @@ @]
    /\ UNCHANGED <<env, chart, obj, data, results, outFile, last, scored, checks>>

\* every future is done: list(...) holds the results, the with block ends,
\* the list is sorted and stored
SimCollect ==
    /\ pool.active
    /\ Len(pool.finished) = NRows(data)
    /\ LET collected == MapResults(pool.value, pool.finished, NRows(data))
       IN  /\ results' = [set |-> TRUE, list |-> Sorted(collected)]
           /\ pool' = [pool EXCEPT !.active = FALSE, !.collected = collected]
    /\ scored' = TRUE
    /\ last' = Ok("simulate", pool.w)
    /\ UNCHANGED <<env, chart, obj, data, outFile, checks>>

----------------------------------------------------------------------------
(* SustainabilityKPITracker *)

KpiRequired == <<"KPI", "Target", "Actual", "Date">>

\* a cell of the Date column as read_csv(parse_dates=['Date']) stores it
DateCell(c) == IF c.k = "str" THEN [k |-> "date", s |-> c.s, n |-> 0, d |-> 1] ELSE c

\* pd.read_csv(data_file, parse_dates=['Date']): a file without a Date column
\* is refused by the reader itself
KpiReadCsv(t) ==
    IF ~HasCol(t, "Date")
    THEN [data |-> EmptyTable,
          err |-> Err("ValueError", "Missing column provided to 'parse_dates': ", <<"Date">>)]
    ELSE [data |-> SetColumn(t, "Date", [i \in 1..NRows(t) |-> DateCell(t.val["Date"][i])]),
          err |-> NoErr]

Kpi_validate_data(t) == ValidateLoop(t, KpiRequired, "Missing required column: ")

\* (Actual / Target) * 100
Performance(actual, target) == CellScale(CellDiv(actual, target), 100)

\* the comparison written x > 100
KpiStatusStrict(x) ==
    IF CellGe(x, Num(100)) /\ ~CellGe(Num(100), x) THEN Str("On Track")
    ELSE Str("Needs Improvement")

\* lambda x: 'On Track' if x >= 100 else 'Needs Improvement'
KpiStatus(x) == IF CellGe(x, Num(100)) THEN Str("On Track") ELSE Str("Needs Improvement")

\* 'Performance' not in self.data.columns
PerformanceMissing(t) == ~HasCol(t, "Performance")

KpiConstruct ==
    /\ script = "KpiTracker"
    /\ obj = "none"
    /\ LET r == KpiReadCsv(input.data)
           e == IF r.err # NoErr THEN r.err ELSE Kpi_validate_data(r.data)
       IN  IF e = NoErr
           THEN /\ obj' = "live"
                /\ data' = r.data
                /\ last' = Ok("__init__", <<>>)
           ELSE /\ obj' = "failed"
                /\ data' = EmptyTable
                /\ last' = Raised("__init__", <<>>, e)
    /\ UNCHANGED <<env, pool, chart, results, outFile, scored, checks>>

CalculatePerformance ==
    /\ script = "KpiTracker"
    /\ obj = "live"
    /\ LET perf == [i \in 1..NRows(data) |->
                       Performance(data.val["Actual"][i], data.val["Target"][i])]
           withPerf == SetColumn(data, "Performance", perf)
       IN  data' = SetColumn(withPerf, "Status", [i \in 1..NRows(data) |-> KpiStatus(perf[i])])
    /\ scored' = TRUE
    /\ last' = Ok("calculate_performance", <<>>)
    /\ UNCHANGED <<env, pool, chart, obj, results, outFile, checks>>

\* a method that reads the Performance and Status columns after the guard;
\* a table that came with a Performance column but was never classified has
\* no Status column to read
KpiShow(op, msg, errType) ==
    /\ script = "KpiTracker"
    /\ obj = "live"
    /\ last' = IF PerformanceMissing(data)
               THEN Raised(op, <<>>, Err("ValueError", msg, <<>>))
               ELSE IF ~HasCol(data, "Status")
                    THEN Raised(op, <<>>, Err(errType, "no such column: ", <<"Status">>))
                    ELSE Ok(op, <<>>)
    /\ UNCHANGED <<env, pool, chart, obj, data, results, outFile, scored, checks>>

DisplaySummary ==
    KpiShow("display_summary", "Run calculate_performance() before displaying summary.", "KeyError")

VisualizePerformance ==
    KpiShow("visualize_performance", "Run calculate_performance() before visualizing performance.", "ValueError")

VisualizeInteractive ==
    KpiShow("visualize_interactive", "Run calculate_performance() before visualizing performance.", "ValueError")

KpiExportResults ==
    /\ script = "KpiTracker"
    /\ obj = "live"
    /\ IF PerformanceMissing(data)
       THEN /\ last' = Raised("export_results", <<>>,
                              Err("ValueError", "Run calculate_performance() before exporting results.", <<>>))
            /\ UNCHANGED outFile
       ELSE /\ outFile' = TableFile(data)
            /\ last' = Ok("export_results", <<>>)
    /\ UNCHANGED <<env, pool, chart, obj, data, results, scored, checks>>

\* no guard: groupby(['Date', 'KPI'])['Performance'] looks the column up
AddTrendAnalysis ==
    /\ script = "KpiTracker"
    /\ obj = "live"
    /\ last' = IF HasCol(data, "Performance") THEN Ok("add_trend_analysis", <<>>)
               ELSE Raised("add_trend_analysis", <<>>,
                           Err("KeyError", "Column not found: ", <<"Performance">>))
    /\ UNCHANGED <<env, pool, chart, obj, data, results, outFile, scored, checks>>

----------------------------------------------------------------------------
(* RegulatoryComplianceValidator *)

RegDataRequired == <<"Entity", "Requirement", "Status", "Date">>
RegRegulationRequired == <<"Requirement", "Description", "Threshold">>

Reg_validate_data(t, regs) ==
    LET e == ValidateLoop(t, RegDataRequired, "Missing required column in data: ")
    IN  IF e # NoErr THEN e
        ELSE ValidateLoop(regs, RegRegulationRequired, "Missing required column in regulations: ")

\* the names pandas gives to a column that both tables of a merge hold
SuffixX(c) ==
    CASE c = "Description" -> "Description_x"
      [] c = "Threshold" -> "Threshold_x"
      [] c = "Compliance" -> "Compliance_x"
      [] OTHER -> c

SuffixY(c) ==
    CASE c = "Description" -> "Description_y"
      [] c = "Threshold" -> "Threshold_y"
      [] c = "Compliance" -> "Compliance_y"
      [] OTHER -> c

\* the pairs of an inner join: a left row without a match is dropped
RECURSIVE JoinPairsInner(_, _, _, _)
JoinPairsInner(left, right, key, i) ==
    IF i > NRows(left) THEN <<>>
    ELSE LET m == SelectSeq([j \in 1..NRows(right) |-> j],
                            LAMBDA j : right.val[key][j] = left.val[key][i])
         IN  [k \in DOMAIN m |-> <<i, m[k]>>] \o JoinPairsInner(left, right, key, i + 1)

\* the rows of left.merge(right, on=key, how='left') as pairs <<left row, right
\* row>>, from left row i on: left order, then right order; right row 0 = no match
RECURSIVE JoinPairs(_, _, _, _)
JoinPairs(left, right, key, i) ==
    IF i > NRows(left) THEN <<>>
    ELSE LET m == SelectSeq([j \in 1..NRows(right) |-> j],
                            LAMBDA j : right.val[key][j] = left.val[key][i])
         IN  (IF m = <<>> THEN << <<i, 0>> >> ELSE [k \in DOMAIN m |-> <<i, m[k]>>])
             \o JoinPairs(left, right, key, i + 1)

\* left.merge(right, on=key, how='left'): the left columns, then the right
\* columns but the key; a name both hold (key aside) gets _x and _y
Merge(left, right, key) ==
    LET both == (Range(left.cols) \cap Range(right.cols)) \ {key}
        lname(c) == IF c \in both THEN SuffixX(c) ELSE c
        rname(c) == IF c \in both THEN SuffixY(c) ELSE c
        rcols == SelectSeq(right.cols, LAMBDA c : c # key)
        cols == [i \in DOMAIN left.cols |-> lname(left.cols[i])]
                \o [i \in DOMAIN rcols |-> rname(rcols[i])]
        pairs == JoinPairs(left, right, key, 1)
        val == [n \in Range(cols) |->
                  IF \E c \in Range(left.cols) : lname(c) = n
                  THEN LET c == CHOOSE c \in Range(left.cols) : lname(c) = n
                       IN  [k \in DOMAIN pairs |-> left.val[c][pairs[k][1]]]
                  ELSE LET c == CHOOSE c \in Range(rcols) : rname(c) = n
                       IN  [k \in DOMAIN pairs |->
                              IF pairs[k][2] = 0 THEN NaN ELSE right.val[c][pairs[k][2]]]]
    IN  IF Cardinality(Range(cols)) # Len(cols)
        THEN [t |-> left,
              err |-> Err("MergeError", "Passing 'suffixes' which cause duplicate columns is not allowed", <<>>)]
        ELSE [t |-> [cols |-> cols, val |-> val], err |-> NoErr]

\* the comparison written row['Status'] > row['Threshold']
ComplianceLabelStrict(status, threshold) ==
    IF CellGe(status, threshold) /\ ~CellGe(threshold, status) THEN Str("Compliant")
    ELSE Str("Non-Compliant")

\* 'Compliant' if row['Status'] >= row['Threshold'] else 'Non-Compliant'
ComplianceLabel(status, threshold) ==
    IF CellGe(status, threshold) THEN Str("Compliant") ELSE Str("Non-Compliant")

\* 'Compliance' not in self.data.columns
ComplianceMissing(t) == ~HasCol(t, "Compliance")

RegConstruct ==
    /\ script = "Validator"
    /\ obj = "none"
    /\ LET e == Reg_validate_data(input.data, input.regs)
       IN  IF e = NoErr
           THEN /\ obj' = "live"
                /\ data' = input.data
                /\ last' = Ok("__init__", <<>>)
           ELSE /\ obj' = "failed"
                /\ data' = EmptyTable
                /\ last' = Raised("__init__", <<>>, e)
    /\ UNCHANGED <<env, pool, chart, results, outFile, scored, checks>>

\* self.data is replaced by the merged table before the rows are classified:
\* when the merged table has no column named Status or Threshold, the lookup
\* in the lambda raises KeyError and the merged table stays
CheckCompliance ==
    /\ script = "Validator"
    /\ obj = "live"
    /\ checks < MaxChecks
    /\ checks' = checks + 1
    /\ LET m == Merge(data, input.regs, "Requirement")
       IN  IF m.err # NoErr
           THEN /\ last' = Raised("check_compliance", <<>>, m.err)
                /\ UNCHANGED <<data, scored>>
           ELSE IF ~HasCol(m.t, "Status") \/ ~HasCol(m.t, "Threshold")
                THEN /\ data' = m.t
                     /\ last' = Raised("check_compliance", <<>>,
                                       Err("KeyError", "",
                                           <<IF ~HasCol(m.t, "Status") THEN "Status" ELSE "Threshold">>))
                     /\ UNCHANGED scored
                ELSE /\ data' = SetColumn(m.t, "Compliance",
                                    [i \in 1..NRows(m.t) |->
                                        ComplianceLabel(m.t.val["Status"][i], m.t.val["Threshold"][i])])
                     /\ scored' = TRUE
                     /\ last' = Ok("check_compliance", <<>>)
    /\ UNCHANGED <<env, pool, chart, obj, results, outFile>>

GenerateComplianceSummary ==
    /\ script = "Validator"
    /\ obj = "live"
    /\ last' = IF ComplianceMissing(data)
               THEN Raised("generate_compliance_summary", <<>>,
                           Err("ValueError", "Run check_compliance() before generating summary.", <<>>))
               ELSE Ok("generate_compliance_summary", <<>>)
    /\ UNCHANGED <<env, pool, chart, obj, data, results, outFile, scored, checks>>

ExportComplianceReport ==
    /\ script = "Validator"
    /\ obj = "live"
    /\ IF ComplianceMissing(data)
       THEN /\ last' = Raised("export_compliance_report", <<>>,
                              Err("ValueError", "Run check_compliance() before exporting report.", <<>>))
            /\ UNCHANGED outFile
       ELSE /\ outFile' = TableFile(data)
            /\ last' = Ok("export_compliance_report", <<>>)
    /\ UNCHANGED <<env, pool, chart, obj, data, results, scored, checks>>

\* after the guard it prints the columns Entity, Requirement, Status, Threshold
FlagNonCompliance ==
    /\ script = "Validator"
    /\ obj = "live"
    /\ LET shown == <<"Entity", "Requirement", "Status", "Threshold">>
           i == FirstMissing(data, shown)
       IN  last' = IF ComplianceMissing(data)
                   THEN Raised("flag_non_compliance", <<>>,
                               Err("ValueError", "Run check_compliance() before flagging non-compliance.", <<>>))
                   ELSE IF i # 0
                        THEN Raised("flag_non_compliance", <<>>, Err("KeyError", "not in index: ", <<shown[i]>>))
                        ELSE Ok("flag_non_compliance", <<>>)
    /\ UNCHANGED <<env, pool, chart, obj, data, results, outFile, scored, checks>>

----------------------------------------------------------------------------
(* Circularity Metrics Analyzer *)

\* the keys of CIRCULARITY_FACTORS, in their order
CircFactors == <<"recyclability", "reuse_potential", "end_of_life_recovery", "carbon_footprint">>

RECURSIVE SumFrom(_, _)
SumFrom(s, i) == IF i > Len(s) THEN 0 ELSE s[i] + SumFrom(s, i + 1)

\* df.fillna(df.mean(numeric_only=True)) on one column: a numeric column gets
\* the mean of its present values in the place of each missing one
FillNa(vals) ==
    LET present == SelectSeq(vals, IsNum)
        total == SumFrom([i \in DOMAIN present |-> present[i].n], 1)
    IN  IF present = <<>> \/ \E i \in DOMAIN vals : vals[i].k = "str" THEN vals
        ELSE [i \in DOMAIN vals |->
                 IF IsNaN(vals[i]) THEN Frac(total, Len(present)) ELSE vals[i]]

\* StandardScaler().fit_transform on one column: (x - mean) / std with the
\* population std, and std 0 replaced by 1.  With the cells brought to the
\* common denominator den, x = num[i]/den:
\*     (x - mean) / std = (N*num[i] - sum) / sqrt(N*sumsq - sum^2)
Standardized(vals) ==
    LET den == IF \E i \in DOMAIN vals : vals[i].d > 1
               THEN vals[CHOOSE i \in DOMAIN vals : vals[i].d > 1].d ELSE 1
        num == [i \in DOMAIN vals |-> vals[i].n * (den \div vals[i].d)]
        N == Len(vals)
        sum == SumFrom(num, 1)
        sumsq == SumFrom([i \in DOMAIN num |-> num[i] * num[i]], 1)
        radicand == N * sumsq - sum * sum
    IN  IF \E i \in DOMAIN vals : ~IsNum(vals[i]) THEN vals
        ELSE [i \in DOMAIN vals |->
                 IF radicand = 0 THEN Num(0) ELSE Root(N * num[i] - sum, radicand)]

RECURSIVE ScaleFrom(_, _)
ScaleFrom(t, i) ==
    IF i > Len(CircFactors) THEN t
    ELSE ScaleFrom(SetColumn(t, CircFactors[i], Standardized(t.val[CircFactors[i]])), i + 1)

\* preprocess_data(file_path): every error raised inside is caught and raised
\* again as Exception("An error occurred during preprocessing: ...")
PreprocessData ==
    /\ script = "Circularity"
    /\ obj = "none"
    /\ LET missing == SelectSeq(CircFactors, LAMBDA c : ~HasCol(input.data, c))
           filled == [cols |-> input.data.cols,
                      val |-> [c \in DOMAIN input.data.val |-> FillNa(input.data.val[c])]]
       IN  IF missing # <<>>
           THEN /\ obj' = "failed"
                /\ data' = EmptyTable
                /\ last' = Raised("preprocess_data", <<>>,
                                  Err("Exception",
                                      "An error occurred during preprocessing: Input data is missing required columns: ",
                                      missing))
           ELSE IF NRows(input.data) = 0
                THEN /\ obj' = "failed"
                     /\ data' = EmptyTable
                     /\ last' = Raised("preprocess_data", <<>>,
                                       Err("Exception",
                                           "An error occurred during preprocessing: Found array with 0 sample(s)",
                                           <<>>))
                ELSE /\ obj' = "live"
                     /\ data' = ScaleFrom(filled, 1)
                     /\ last' = Ok("preprocess_data", <<>>)
    /\ UNCHANGED <<env, pool, chart, results, outFile, scored, checks>>

\* the weights of CIRCULARITY_FACTORS, in tenths, in the order of the keys
CircWeights == <<4, 3, 2, -1>>

\* the integer square root of x
RECURSIVE IsqrtIn(_, _, _)
IsqrtIn(x, lo, hi) ==
    IF lo = hi THEN lo
    ELSE LET mid == (lo + hi + 1) \div 2
         IN  IF mid * mid <= x THEN IsqrtIn(x, mid, hi) ELSE IsqrtIn(x, lo, mid - 1)

Isqrt(x) == IsqrtIn(x, 0, 46340)

\* a / b rounded towards zero
Quot(a, b) == IF a >= 0 THEN a \div b ELSE -((-a) \div b)

\* the float in a scaled cell, to the hundredth
Hundredths(c) ==
    IF c.k = "root" THEN Quot(c.n * 10000, Isqrt(c.d * 10000))
    ELSE Quot(c.n * 100, c.d)

\* df[factors].dot(weights) for row i, in thousandths; NaN when a factor of
\* the row is NaN
CircularityScore(t, i) ==
    IF \E k \in DOMAIN CircFactors : IsNaN(t.val[CircFactors[k]][i]) THEN NaN
    ELSE Frac(SumFrom([k \in DOMAIN CircFactors |->
                          CircWeights[k] * Hundredths(t.val[CircFactors[k]][i])], 1),
              1000)

\* calculate_circularity_score(df)
CalculateCircularityScore ==
    /\ script = "Circularity"
    /\ obj = "live"
    /\ data' = SetColumn(data, "circularity_score",
                         [i \in 1..NRows(data) |-> CircularityScore(data, i)])
    /\ scored' = TRUE
    /\ last' = Ok("calculate_circularity_score", <<>>)
    /\ UNCHANGED <<env, pool, chart, obj, results, outFile, checks>>

\* sort_values(..., ascending=True): x goes before the first greater bar
InsertBarAscending(s, x) ==
    LET later == IF IsNaN(x[2]) THEN {}
                 ELSE {j \in DOMAIN s : IsNaN(s[j][2]) \/ CellLt(x[2], s[j][2])}
        at == IF later = {} THEN Len(s) + 1 ELSE MinOf(later)
    IN  SubSeq(s, 1, at - 1) \o <<x>> \o SubSeq(s, at, Len(s))

\* df.sort_values(by='circularity_score', ascending=False), one row at a
\* time: x goes before the first bar with a smaller score and before the
\* bars without a score (na_position='last'); equal scores keep the order of
\* the rows (the sort of a table this small is stable)
InsertBar(s, x) ==
    LET later == IF IsNaN(x[2]) THEN {}
                 ELSE {j \in DOMAIN s : IsNaN(s[j][2]) \/ CellLt(s[j][2], x[2])}
        at == IF later = {} THEN Len(s) + 1 ELSE MinOf(later)
    IN  SubSeq(s, 1, at - 1) \o <<x>> \o SubSeq(s, at, Len(s))

RECURSIVE BarsFrom(_, _, _)
BarsFrom(acc, t, i) ==
    IF i > NRows(t) THEN acc
    ELSE BarsFrom(InsertBar(acc, <<t.val["material"][i], t.val["circularity_score"][i]>>),
                  t, i + 1)

\* visualize_circularity(df): the bars are drawn in the order of the sorted
\* copy of df; df itself is not changed
VisualizeCircularity ==
    /\ script = "Circularity"
    /\ obj = "live"
    /\ IF ~HasCol(data, "circularity_score") \/ ~HasCol(data, "material")
       THEN /\ last' = Raised("visualize_circularity", <<>>,
                              Err("KeyError", "Missing column for visualization: ",
                                  <<IF ~HasCol(data, "circularity_score")
                                    THEN "circularity_score" ELSE "material">>))
            /\ UNCHANGED chart
       ELSE /\ chart' = BarsFrom(<<>>, data, 1)
            /\ last' = Ok("visualize_circularity", <<>>)
    /\ UNCHANGED <<env, pool, obj, data, results, outFile, scored, checks>>

\* save_results(df, output_path)
SaveResults ==
    /\ script = "Circularity"
    /\ obj = "live"
    /\ outFile' = TableFile(data)
    /\ last' = Ok("save_results", <<>>)
    /\ UNCHANGED <<env, pool, chart, obj, data, results, scored, checks>>

----------------------------------------------------------------------------
(* The CSV files a behaviour may start from *)

\* every required column dropped in turn, two dropped, the columns reversed,
\* and an extra column that no script asks for
ColumnVariants(base, required, extra) ==
    {DropColumn(base, required[i]) : i \in DOMAIN required}
    \cup {DropColumn(DropColumn(base, required[1]), required[Len(required)])}
    \cup {ReverseColumns(base)}
    \cup {SetColumn(base, extra, [i \in 1..NRows(base) |-> Num(i)])}

\* packaging rows: Material, Cost_per_unit, Recyclability, Carbon_Footprint,
\* Durability (tenths); A and B are the rows of the documented example
OptRowA == <<Str("A"), Num(100), Num(2), Num(50), Num(8)>>
OptRowB == <<Str("B"), Num(20), Num(9), Num(10), Num(3)>>
OptRowC == <<Str("C"), Num(20), Num(2), Num(30), Num(8)>>
OptRowKinds == {OptRowA, OptRowB, OptRowC}

ExampleTable == MakeTable(OptRequired, <<OptRowA, OptRowB>>)

\* a table whose Carbon_Footprint column holds text in one row
OptTextTable ==
    MakeTable(OptRequired, <<OptRowA, <<Str("X"), Num(20), Num(9), Str("n/a"), Num(3)>> >>)

OptInputs ==
    {MakeTable(OptRequired, rows) : rows \in SeqsUpTo(OptRowKinds, 0, MaxRows)}
    \cup {MakeTable(OptRequired, <<OptRowA, OptRowB, OptRowC>>)}
    \cup ColumnVariants(ExampleTable, OptRequired, "Supplier")
    \cup {OptTextTable}

\* lifecycle rows: Stage, Cost, Carbon_Footprint, Water_Usage, Energy_Consumption
SimRowA == <<Str("Production"), Num(100), Num(50), Num(2), Num(8)>>
SimRowB == <<Str("Transport"), Num(20), Num(10), Num(9), Num(3)>>
SimRowC == <<Str("Disposal"), Num(20), Num(30), Num(2), Num(8)>>
SimRowKinds == {SimRowA, SimRowB, SimRowC}

SimBaseTable == MakeTable(SimRequired, <<SimRowA, SimRowB>>)

SimTextTable ==
    MakeTable(SimRequired,
        <<SimRowA, <<Str("Transport"), Num(20), Num(10), Str("n/a"), Num(3)>> >>)

SimInputs ==
    {MakeTable(SimRequired, rows) : rows \in SeqsUpTo(SimRowKinds, 0, MaxRows)}
    \cup {MakeTable(SimRequired, <<SimRowA, SimRowB, SimRowC>>)}
    \cup ColumnVariants(SimBaseTable, SimRequired, "Region")
    \cup {SimTextTable}

\* KPI rows: KPI, Target, Actual, Date; the targets are positive, zero and
\* negative, the actuals below, at and above the target
KpiRow(target, actual) == <<Str("Emissions"), Num(target), Num(actual), Str("2024-01-01")>>
KpiRowKinds ==
    {KpiRow(10, 9), KpiRow(10, 10), KpiRow(10, 11),
     KpiRow(0, 0), KpiRow(0, 9), KpiRow(0, -11),
     KpiRow(-10, -11), KpiRow(-10, 9)}

KpiBaseTable ==
    MakeTable(KpiRequired,
        <<<<Str("Emissions"), Num(10), Num(9), Str("2024-01-01")>>,
          <<Str("Waste"), Num(10), Num(10), Str("2024-02-01")>>>>)

\* the last table already carries a column named Performance
KpiInputs ==
    {MakeTable(KpiRequired, rows) : rows \in SeqsUpTo(KpiRowKinds, 0, MaxKpiRows)}
    \cup ColumnVariants(KpiBaseTable, KpiRequired, "Owner")
    \cup {SetColumn(KpiBaseTable, "Performance", <<Num(120), Num(80)>>)}

\* compliance rows: Entity, Requirement, Status, Date
RegDataRowKinds ==
    {<<Str("E1"), Str("R1"), Num(5), Str("2024-01-01")>>,
     <<Str("E2"), Str("R1"), Num(6), Str("2024-01-01")>>,
     <<Str("E3"), Str("R3"), Num(5), Str("2024-01-01")>>}

\* regulation rows: Requirement, Description, Threshold
RegRuleRowKinds ==
    {<<Str("R1"), Str("limit"), Num(5)>>,
     <<Str("R1"), Str("stricter limit"), Num(6)>>,
     <<Str("R2"), Str("other"), Num(5)>>}

RegBaseData ==
    MakeTable(RegDataRequired,
        <<<<Str("E1"), Str("R1"), Num(5), Str("2024-01-01")>>,
          <<Str("E2"), Str("R1"), Num(4), Str("2024-01-01")>>>>)

RegBaseRules == MakeTable(RegRegulationRequired, <<<<Str("R1"), Str("limit"), Num(5)>>>>)

\* the last two data tables already carry a column named Compliance, or Threshold
RegInputs ==
    {[data |-> MakeTable(RegDataRequired, rows), regs |-> MakeTable(RegRegulationRequired, rules)] :
        rows \in SeqsUpTo(RegDataRowKinds, 1, MaxDataRows),
        rules \in SeqsUpTo(RegRuleRowKinds, 0, MaxRegRows)}
    \cup {[data |-> t, regs |-> RegBaseRules] :
            t \in ColumnVariants(RegBaseData, RegDataRequired, "Auditor")
                  \cup {RegBaseData,
                        SetColumn(RegBaseData, "Compliance", <<Str("Compliant"), Str("Compliant")>>),
                        SetColumn(RegBaseData, "Threshold", <<Num(1), Num(1)>>)}}
    \cup {[data |-> RegBaseData, regs |-> r] :
            r \in ColumnVariants(RegBaseRules, RegRegulationRequired, "Authority")}

\* circularity rows: material and the four factors; one cell is missing
CircCols == <<"material">> \o CircFactors
CircRowKinds ==
    {<<Str("glass"), Num(8), Num(5), Num(3), Num(4)>>,
     <<Str("paper"), Num(2), Num(5), Num(7), NaN>>,
     <<Str("foil"), Num(5), Num(1), Num(3), Num(9)>>}

CircBaseTable ==
    MakeTable(CircCols,
        <<<<Str("glass"), Num(8), Num(5), Num(3), Num(4)>>,
          <<Str("foil"), Num(5), Num(1), Num(3), Num(9)>>>>)

CircInputs ==
    {MakeTable(CircCols, rows) : rows \in SeqsUpTo(CircRowKinds, 0, MaxCircRows)}
    \cup ColumnVariants(CircBaseTable, CircFactors, "supplier")

Scripts == {"Optimizer", "Simulator", "KpiTracker", "Validator", "Circularity"}

Inputs(s) ==
    CASE s = "Optimizer" -> {[data |-> t, regs |-> EmptyTable] : t \in OptInputs}
      [] s = "Simulator" -> {[data |-> t, regs |-> EmptyTable] : t \in SimInputs}
      [] s = "KpiTracker" -> {[data |-> t, regs |-> EmptyTable] : t \in KpiInputs}
      [] s = "Validator" -> RegInputs
      [] s = "Circularity" -> {[data |-> t, regs |-> EmptyTable] : t \in CircInputs}

----------------------------------------------------------------------------
(* The state machine *)

Init ==
    /\ script \in Scripts
    /\ input \in Inputs(script)
    /\ obj = "none"
    /\ data = EmptyTable
    /\ results = NoResults
    /\ outFile = NoFile
    /\ last = Ok("start", <<>>)
    /\ scored = FALSE
    /\ checks = 0
    /\ pool = IdlePool
    /\ chart = <<>>
    /\ solverErr \in IF script \in {"Optimizer", "Simulator"}
                     THEN [1..NRows(input.data) -> SolverErrs]
                     ELSE {<<>>}

Next ==
    \/ OptConstruct
    \/ OptNormalizeColumns
    \/ \E w \in OptWeightChoices : OptOptimize(w)
    \/ OptDisplayResults
    \/ OptVisualizeResults
    \/ OptVisualizeResultsInteractive
    \/ OptExportResults
    \/ OptVisualizeMetricBreakdown
    \/ SimConstruct
    \/ SimNormalizeColumns
    \/ \E w \in SimWeightChoices : SimSimulate(w)
    \/ SimDisplayResults
    \/ SimVisualizeResults
    \/ SimExportResults
    \/ KpiConstruct
    \/ CalculatePerformance
    \/ DisplaySummary
    \/ VisualizePerformance
    \/ VisualizeInteractive
    \/ KpiExportResults
    \/ AddTrendAnalysis
    \/ RegConstruct
    \/ CheckCompliance
    \/ GenerateComplianceSummary
    \/ ExportComplianceReport
    \/ FlagNonCompliance
    \/ PreprocessData
    \/ CalculateCircularityScore
    \/ VisualizeCircularity
    \/ SaveResults

Spec == Init /\ [][Next]_vars

\* the Simulator with simulate() taken step by step; no other method runs
\* while the calling thread is inside simulate()
InitPool == Init /\ script = "Simulator"

NextPool ==
    \/ SimConstruct
    \/ \E w \in SimWeightChoices : SimSubmit(w)
    \/ PoolStart
    \/ \E i \in 1..NRows(data) : PoolFinish(i)
    \/ SimCollect
    \/ ~pool.active /\ SimNormalizeColumns
    \/ ~pool.active /\ SimDisplayResults
    \/ ~pool.active /\ SimVisualizeResults
    \/ ~pool.active /\ SimExportResults

SpecPool == InitPool /\ [][NextPool]_vars

----------------------------------------------------------------------------
(* Stage order of the Optimizer and the Simulator *)

ResultMethods ==
    {"display_results", "visualize_results", "visualize_results_interactive", "export_results"}

RunBeforeMessages ==
    {"Run optimize() before displaying results.",
     "Run optimize() before visualizing results.",
     "Run optimize() before exporting results.",
     "Run simulate() before displaying results.",
     "Run simulate() before visualizing results.",
     "Run simulate() before exporting results."}

\* C1: on an Optimizer or Simulator, display_results, visualize_results,
\* visualize_results_interactive and export_results complete normally only
\* if optimize() / simulate() has completed successfully before; called
\* before that, the call raises the ValueError 'Run ... before ...', writes
\* no file and leaves the table and the results as they were.
C1_ResultsNeedScoring ==
    /\ [](script \in {"Optimizer", "Simulator"} /\ last.op \in ResultMethods /\ last.ok
            => scored)
    /\ [][(script \in {"Optimizer", "Simulator"} /\ last'.op \in ResultMethods /\ ~scored)
            => /\ ~last'.ok
               /\ last'.err.type = "ValueError"
               /\ last'.err.msg \in RunBeforeMessages
               /\ outFile' = outFile
               /\ data' = data
               /\ results' = results]_vars

\* export_results is refused on an object whose normalisation has raised half
\* way, leaving some normalized columns in the table
C1_Witness ==
    /\ script = "Optimizer"
    /\ last.op = "export_results"
    /\ ~last.ok
    /\ ~scored
    /\ HasCol(data, "Cost_per_unit_normalized")
    /\ ~HasCol(data, "Carbon_Footprint_normalized")

----------------------------------------------------------------------------
(* Stage order of the Validator and the KPI tracker *)

ComplianceMethods ==
    {"generate_compliance_summary", "flag_non_compliance", "export_compliance_report"}

PerformanceMethods ==
    {"display_summary", "visualize_performance", "visualize_interactive", "export_results"}

StageOrderMessages ==
    {"Run check_compliance() before generating summary.",
     "Run check_compliance() before exporting report.",
     "Run check_compliance() before flagging non-compliance.",
     "Run calculate_performance() before displaying summary.",
     "Run calculate_performance() before visualizing performance.",
     "Run calculate_performance() before exporting results."}

\* C2: on a Validator (KPI tracker) built from any table that passes
\* validation, generate_compliance_summary, flag_non_compliance and
\* export_compliance_report (display_summary, visualize_performance,
\* visualize_interactive, export_results) called before check_compliance()
\* (calculate_performance()) has completed fail with the stage-order error
\* and export nothing.
C2_StageOrderByHistory ==
    (/\ \/ script = "Validator" /\ last.op \in ComplianceMethods
        \/ script = "KpiTracker" /\ last.op \in PerformanceMethods
     /\ ~scored)
    => /\ ~last.ok
       /\ last.err.type = "ValueError"
       /\ last.err.msg \in StageOrderMessages
       /\ ~outFile.written

\* C3: add_trend_analysis called on a KPI tracker before
\* calculate_performance() fails with the stage-order ValueError
\* 'Run calculate_performance() before ...', like the other later-stage
\* methods.
C3_TrendNeedsPerformance ==
    (script = "KpiTracker" /\ last.op = "add_trend_analysis" /\ ~scored)
    => /\ ~last.ok
       /\ last.err.type = "ValueError"
       /\ last.err.msg \in StageOrderMessages

----------------------------------------------------------------------------
(* Validation *)

MissingColumnMessages ==
    {"Missing required column: ",
     "Missing column provided to 'parse_dates': ",
     "Missing required column in data: ",
     "Missing required column in regulations: ",
     "An error occurred during preprocessing: Input data is missing required columns: "}

\* the columns each script requires of its data table and of its regulations table
RequiredOfData ==
    CASE script = "Optimizer" -> Range(OptRequired)
      [] script = "Simulator" -> Range(SimRequired)
      [] script = "KpiTracker" -> Range(KpiRequired)
      [] script = "Validator" -> Range(RegDataRequired)
      [] script = "Circularity" -> Range(CircFactors)

RequiredOfRegs == IF script = "Validator" THEN Range(RegRegulationRequired) ELSE {}

MissingOfData == RequiredOfData \ Range(input.data.cols)
MissingOfRegs == RequiredOfRegs \ Range(input.regs.cols)

\* C4: constructing the object (running preprocess_data) on a table that
\* lacks exactly one required column c raises a missing-column error whose
\* message names c and leaves no object and no table; on a table that holds
\* every required column, in whatever order, no missing-column error is
\* raised (and the four classes construct the object).
C4_Validation ==
    last.op \in {"__init__", "preprocess_data"} =>
        /\ \A c \in RequiredOfData \cup RequiredOfRegs :
              (MissingOfData \cup MissingOfRegs = {c}) =>
                  /\ obj = "failed"
                  /\ ~last.ok
                  /\ last.err.msg \in MissingColumnMessages
                  /\ c \in Range(last.err.names)
                  /\ data = EmptyTable
                  /\ results = NoResults
                  /\ ~outFile.written
        /\ (MissingOfData \cup MissingOfRegs = {}) =>
              /\ last.err.msg \notin MissingColumnMessages
              /\ script # "Circularity" => obj = "live" /\ last.ok

\* a regulations file without its last required column is refused by name
C4_Witness ==
    /\ script = "Validator"
    /\ MissingOfData = {}
    /\ MissingOfRegs = {"Threshold"}
    /\ obj = "failed"
    /\ last.err.names = <<"Threshold">>

----------------------------------------------------------------------------
(* Scoring and ranking *)

\* C5: optimize() with the default weights on the example table (rows A, B
\* in that order) returns a ranked list whose first element is B.
C5_ExampleRanksBFirst ==
    (/\ script = "Optimizer"
     /\ input.data = ExampleTable
     /\ last.op = "optimize"
     /\ last.ok
     /\ last.w = OptDefaultWeights)
    => results.list[1][1] = Str("B")

ScoringMethods == {"optimize", "simulate"}

\* the (name, score) pairs of the rows, in row order, for the weights of the last call
RowPairs ==
    IF script = "Optimizer" THEN OptRowResults(data, last.w, solverErr)
    ELSE SimRowResults(data, last.w, solverErr)

RowPermutations(n) == {p \in [1..n -> 1..n] : \A i, j \in 1..n : i # j => p[i] # p[j]}

\* two floats compare equal
ScoreEq(a, b) == ~a.nan /\ ~b.nan /\ a.v = b.v /\ a.e = b.e

\* C6: the list optimize() / simulate() returns is a permutation of the
\* per-row (name, score) pairs, no element has a smaller score than an
\* element before it, and rows with equal scores keep their input order.
C6_RankingStableAscending ==
    (script \in {"Optimizer", "Simulator"} /\ last.op \in ScoringMethods /\ last.ok) =>
        LET out == results.list
            n == Len(out)
        IN  /\ n = NRows(input.data)
            /\ \E p \in RowPermutations(n) :
                  /\ \A i \in 1..n : out[i] = RowPairs[p[i]]
                  /\ \A i, j \in 1..n :
                        (i < j /\ ScoreEq(out[i][2], out[j][2])) => p[i] < p[j]
            /\ \A i, j \in 1..n : i < j => ~ScoreLt(out[j][2], out[i][2])

\* three rows come back in an order that is not the input order
C6_Witness ==
    /\ script = "Simulator"
    /\ last.op = "simulate"
    /\ last.ok
    /\ Len(results.list) = 3
    /\ results.list[1] = RowPairs[3]
    /\ results.list[2] = RowPairs[1]
    /\ ScoreLt(results.list[1][2], results.list[2][2])
    /\ ScoreEq(results.list[2][2], results.list[3][2])

----------------------------------------------------------------------------
(* Normalisation *)

ToNormalize == IF script = "Optimizer" THEN Range(OptToNormalize) ELSE Range(SimToNormalize)

\* the raw values of column c are not all equal
NonDegenerate(c) ==
    \E i, j \in 1..NRows(data) : data.val[c][i].n # data.val[c][j].n

\* C7: once a column has been normalized and its raw values are not all
\* equal, every normalized value lies in [0,1], the least is exactly 0, the
\* greatest exactly 1, and the rows are ordered by the normalized value as
\* they are by the raw value.
C7_NormalizedRange ==
    (script \in {"Optimizer", "Simulator"} /\ obj = "live") =>
        \A c \in ToNormalize :
            (HasCol(data, NormalizedName(c)) /\ NonDegenerate(c)) =>
                LET raw == data.val[c]
                    norm == data.val[NormalizedName(c)]
                    rows == 1..NRows(data)
                IN  /\ \A i \in rows :
                          /\ norm[i].k = "num"
                          /\ norm[i].d > 0
                          /\ 0 <= norm[i].n
                          /\ norm[i].n <= norm[i].d
                    /\ \E i \in rows : norm[i].n = 0
                    /\ \E i \in rows : norm[i].n = norm[i].d
                    /\ \A i, j \in rows :
                          (raw[i].n < raw[j].n) <=> (norm[i].n * norm[j].d < norm[j].n * norm[i].d)

\* a column of three distinct values: one normalized value lies strictly inside (0,1)
C7_Witness ==
    /\ script = "Optimizer"
    /\ obj = "live"
    /\ HasCol(data, "Carbon_Footprint_normalized")
    /\ \E i \in 1..NRows(data) :
          LET x == data.val["Carbon_Footprint_normalized"][i]
          IN  x.k = "num" /\ 0 < x.n /\ x.n < x.d

\* column c has rows and all its raw values are equal (max == min)
Degenerate(c) ==
    /\ NRows(data) >= 1
    /\ \A i \in 1..NRows(data) : data.val[c][i].k = "num"
    /\ ~NonDegenerate(c)

\* C8: when a column to be normalized has max == min, normalisation fails
\* instead of producing a normalized column, and optimize() / simulate()
\* never rank the rows.
C8_DegenerateColumnFails ==
    (/\ script \in {"Optimizer", "Simulator"}
     /\ obj = "live"
     /\ last.op \in {"normalize_columns", "optimize", "simulate"})
    => \A c \in ToNormalize :
          Degenerate(c) => /\ ~last.ok
                           /\ ~HasCol(data, NormalizedName(c))
                           /\ ~results.set

----------------------------------------------------------------------------
(* Classification *)

\* some regulation row has the Requirement of row i of the table
Matched(i) ==
    \E j \in 1..NRows(input.regs) :
        input.regs.val["Requirement"][j] = data.val["Requirement"][i]

\* C9: after check_compliance() every row carries exactly one of the labels
\* 'Compliant' and 'Non-Compliant', and a row whose Requirement matches a
\* regulation is 'Compliant' exactly when Status >= Threshold (Status ==
\* Threshold is 'Compliant', one unit below is 'Non-Compliant').
C9_ComplianceBoundary ==
    (script = "Validator" /\ last.op = "check_compliance" /\ last.ok) =>
        \A i \in 1..NRows(data) :
            LET label == data.val["Compliance"][i]
                status == data.val["Status"][i].n
                threshold == data.val["Threshold"][i]
            IN  /\ label \in {Str("Compliant"), Str("Non-Compliant")}
                /\ Matched(i) =>
                      /\ threshold.k = "num"
                      /\ (label = Str("Compliant")) <=> (status >= threshold.n)
                      /\ status = threshold.n => label = Str("Compliant")
                      /\ status = threshold.n - 1 => label = Str("Non-Compliant")

\* one table holds a row at its threshold and a row one unit below it
C9_Witness ==
    /\ script = "Validator"
    /\ last.op = "check_compliance"
    /\ last.ok
    /\ \E i, j \in 1..NRows(data) :
          /\ data.val["Status"][i].n = data.val["Threshold"][i].n
          /\ data.val["Compliance"][i] = Str("Compliant")
          /\ data.val["Threshold"][j].k = "num"
          /\ data.val["Status"][j].n = data.val["Threshold"][j].n - 1
          /\ data.val["Compliance"][j] = Str("Non-Compliant")

\* the float x is >= 100
AtLeastHundred(x) ==
    \/ x.k = "inf" /\ x.n > 0
    \/ x.k = "num" /\ x.d > 0 /\ x.n >= 100 * x.d

\* C10: after calculate_performance() every row has Performance =
\* Actual/Target*100 (+-inf or NaN for Target 0) and Status 'On Track'
\* exactly when Performance >= 100, otherwise 'Needs Improvement'; for
\* Target > 0 that is: 'On Track' iff Actual >= Target.
C10_KpiClassification ==
    (script = "KpiTracker" /\ last.op = "calculate_performance" /\ last.ok) =>
        \A i \in 1..NRows(data) :
            LET actual == data.val["Actual"][i].n
                target == data.val["Target"][i].n
                perf == data.val["Performance"][i]
                status == data.val["Status"][i]
            IN  /\ target # 0 =>
                      /\ perf.k = "num"
                      /\ perf.d > 0
                      /\ perf.n * target = actual * 100 * perf.d
                /\ (target = 0 /\ actual > 0) => perf = Inf(1)
                /\ (target = 0 /\ actual < 0) => perf = Inf(-1)
                /\ (target = 0 /\ actual = 0) => perf = NaN
                /\ status = IF AtLeastHundred(perf) THEN Str("On Track")
                            ELSE Str("Needs Improvement")
                /\ target > 0 => ((status = Str("On Track")) <=> (actual >= target))

\* one table holds a row that meets its target exactly and a row one below it
C10_Witness ==
    /\ script = "KpiTracker"
    /\ last.op = "calculate_performance"
    /\ last.ok
    /\ \E i, j \in 1..NRows(data) :
          /\ data.val["Target"][i].n > 0
          /\ data.val["Actual"][i].n = data.val["Target"][i].n
          /\ data.val["Status"][i] = Str("On Track")
          /\ data.val["Target"][j].n > 0
          /\ data.val["Actual"][j].n = data.val["Target"][j].n - 1
          /\ data.val["Status"][j] = Str("Needs Improvement")

----------------------------------------------------------------------------
(* Exported files *)

\* C11: an exported file holds all the columns of the input table, in their
\* input order and with the input's cells in the rows' input order, followed
\* by the derived columns; no input column is dropped or reordered.
C11_ExportKeepsInputColumns ==
    outFile.written =>
        LET n == Len(input.data.cols)
        IN  /\ Len(outFile.cols) >= n
            /\ SubSeq(outFile.cols, 1, n) = input.data.cols
            /\ \A k \in n + 1..Len(outFile.cols) : outFile.cols[k] \notin Range(input.data.cols)

----------------------------------------------------------------------------
(* Failure atomicity of the Validator *)

\* C12: a call on a constructed Validator that raises leaves the data table,
\* its rows and its column names, exactly as it was before the call; so does
\* every call of check_compliance(), the first on the object or a later one.
C12_RaiseLeavesData ==
    [][(script = "Validator" /\ obj = "live" /\ ~last'.ok) => data' = data]_vars

----------------------------------------------------------------------------
(* The thread pool of simulate() *)

\* C13: whatever order the workers of the pool start and finish in, the list
\* collected from the pool holds one (Stage, score) pair per input row in
\* input-row order, simulation_results is what the sequential loop over the
\* rows produces, and no step of a worker changes the table, the results,
\* the file or the outcome of a call.
C13_PoolAsSequential ==
    /\ []((last.op = "simulate" /\ last.ok /\ ~pool.active) =>
            /\ Len(pool.collected) = NRows(input.data)
            /\ \A i \in 1..NRows(input.data) :
                  pool.collected[i][1] = input.data.val["Stage"][i]
            /\ pool.collected = SimRowResults(data, last.w, solverErr)
            /\ results.list = Sorted(SimRowResults(data, last.w, solverErr)))
    /\ [][(pool.active /\ pool'.active) =>
            /\ data' = data
            /\ results' = results
            /\ outFile' = outFile
            /\ last' = last
            /\ pool'.w = pool.w
            /\ \A i \in DOMAIN pool.value : pool'.value[i] = pool.value[i]]_vars

\* three workers finished in an order that is not the order of the rows
C13_Witness ==
    /\ last.op = "simulate"
    /\ last.ok
    /\ ~pool.active
    /\ pool.finished = <<3, 1, 2>>
    /\ pool.collected[1][2] # pool.collected[3][2]

----------------------------------------------------------------------------
(* Scoring again *)

\* what one optimize() / simulate() call with the weights w stores on an
\* object freshly loaded from the input file
FreshNormalized ==
    IF script = "Optimizer" THEN NormalizeFrom(input.data, OptToNormalize, 1).data
    ELSE NormalizeFrom(input.data, SimToNormalize, 1).data

FreshResults(w) ==
    IF script = "Optimizer" THEN Sorted(OptRowResults(FreshNormalized, w, solverErr))
    ELSE Sorted(SimRowResults(FreshNormalized, w, solverErr))

\* C14: after any sequence of calls, the results and the table that a
\* successful optimize() / simulate() leaves are those a single call with the
\* same weights leaves on a freshly loaded object; a second call with the
\* same weights changes neither.
C14_RescoringPure ==
    /\ []((script \in {"Optimizer", "Simulator"} /\ last.op \in ScoringMethods /\ last.ok) =>
            /\ results.list = FreshResults(last.w)
            /\ data = FreshNormalized)
    /\ [][(/\ script \in {"Optimizer", "Simulator"}
           /\ last.op \in ScoringMethods /\ last.ok
           /\ last'.op \in ScoringMethods /\ last'.ok
           /\ last'.w = last.w)
          => (results' = results /\ data' = data)]_vars

\* the file exported after an earlier optimize() holds other scores than the
\* results of the last optimize(), made with other weights
C14_Witness ==
    /\ script = "Optimizer"
    /\ last.op = "optimize"
    /\ last.ok
    /\ last.w # OptDefaultWeights
    /\ outFile.written
    /\ Len(results.list) = 3
    /\ outFile.val["Score"][1] # results.list[1][2]

----------------------------------------------------------------------------
(* Direction of the rankings *)

\* the list optimize() / simulate() stores has no element with a smaller
\* score than an element before it
RankedAscending ==
    (script \in {"Optimizer", "Simulator"} /\ last.op \in ScoringMethods /\ last.ok) =>
        \A i, j \in DOMAIN results.list :
            i < j => ~ScoreLt(results.list[j][2], results.list[i][2])

ChartDrawn == script = "Circularity" /\ last.op = "visualize_circularity" /\ last.ok

\* C15 as stated: optimize, simulate and the circularity chart all place
\* their records in ascending order of score, the lowest score first.
C15_AscendingEverywhere ==
    /\ RankedAscending
    /\ ChartDrawn =>
          \A i, j \in DOMAIN chart : i < j => ~CellLt(chart[j][2], chart[i][2])

\* C15 as amended: optimize and simulate rank ascending, the lowest score
\* first; the circularity chart holds one bar per row of the table and
\* orders them descending, the highest circularity_score first.
C15_BestFirst ==
    /\ RankedAscending
    /\ ChartDrawn =>
          /\ Len(chart) = NRows(data)
          /\ \E p \in RowPermutations(NRows(data)) :
                \A i \in DOMAIN chart :
                    chart[i] = <<data.val["material"][p[i]], data.val["circularity_score"][p[i]]>>
          /\ \A i, j \in DOMAIN chart : i < j => ~CellLt(chart[i][2], chart[j][2])

\* the material of the second row is drawn first: its score is the higher
C15_Witness ==
    /\ ChartDrawn
    /\ Len(chart) = 2
    /\ chart[1][1] = data.val["material"][2]
    /\ CellLt(chart[2][2], chart[1][2])

----------------------------------------------------------------------------
(* The score of a row *)

NameColumn == IF script = "Optimizer" THEN "Material" ELSE "Stage"

NormalizedColumns == IF script = "Optimizer" THEN OptNormalized ELSE SimNormalized

\* the least value of the objective over the box: each term w*x or w*(1-x)
\* is least at 0 for a weight w >= 0 and at w for a weight w < 0
CornerValue(w) == SumFrom([k \in 1..4 |-> IF w[k] < 0 THEN w[k] ELSE 0], 1)

\* C16: when the minimisation returns the exact minimum for every row (no
\* convergence error), every row gets the same score whatever its
\* normalized attributes, the corner value fixed by the signs of the weights
\* where the starting point is defined, and the ranked list holds the rows
\* in input-table order.
C16_ExactMinimumTies ==
    (/\ script \in {"Optimizer", "Simulator"}
     /\ last.op \in ScoringMethods
     /\ last.ok
     /\ \A i \in DOMAIN solverErr : solverErr[i] = 0)
    => LET n == NRows(data)
       IN  /\ Len(results.list) = n
           /\ \A i \in 1..n : results.list[i][1] = data.val[NameColumn][i]
           /\ \A i, j \in 1..n : results.list[i][2] = results.list[j][2]
           /\ \A i \in 1..n :
                 (\A k \in 1..4 : IsNum(data.val[NormalizedColumns[k]][i]))
                 => results.list[i][2] = Score(CornerValue(last.w), 0)

\* three rows with different attributes come back tied, in input order
C16_Witness ==
    /\ script = "Optimizer"
    /\ last.op = "optimize"
    /\ last.ok
    /\ solverErr = <<0, 0, 0>>
    /\ data.val["Cost_per_unit_normalized"][1] # data.val["Cost_per_unit_normalized"][2]
    /\ data.val["Carbon_Footprint_normalized"][2] # data.val["Carbon_Footprint_normalized"][3]
    /\ results.list[1][1] = Str("A")
    /\ results.list[2][1] = Str("B")
    /\ results.list[3][1] = Str("C")
    /\ results.list[1][2] = Score(0, 0)
    /\ results.list[3][2] = Score(0, 0)

----------------------------------------------------------------------------
(* The join of check_compliance() *)

\* a check_compliance() call that returns normally
CheckReturns == script = "Validator" /\ checks' # checks /\ last'.ok

\* row k of table u is row i of table t on the required data columns
SameDataRow(u, k, t, i) ==
    \A c \in Range(RegDataRequired) : u.val[c][k] = t.val[c][i]

\* no two regulation rows have the same Requirement
DistinctRequirements ==
    \A i, j \in 1..NRows(input.regs) :
        i # j => input.regs.val["Requirement"][i] # input.regs.val["Requirement"][j]

\* C17: check_compliance() drops no data row; when the Requirement values of
\* the regulations are pairwise distinct the classified table has exactly
\* one row per data row, in input order; and a row whose Requirement matches
\* no regulation has no Threshold and is labelled 'Non-Compliant'.
C17_LeftJoin ==
    [][CheckReturns =>
        /\ \A i \in 1..NRows(data) : \E k \in 1..NRows(data') : SameDataRow(data', k, data, i)
        /\ DistinctRequirements =>
              /\ NRows(data') = NRows(data)
              /\ \A i \in 1..NRows(data) : SameDataRow(data', i, data, i)
        /\ \A k \in 1..NRows(data') :
              (\A j \in 1..NRows(input.regs) :
                    input.regs.val["Requirement"][j] # data'.val["Requirement"][k])
              => /\ IsNaN(data'.val["Threshold"][k])
                 /\ data'.val["Compliance"][k] = Str("Non-Compliant")]_vars

\* two regulations with different requirements, a first data row that one of
\* them matches and a second that none matches
C17_Witness ==
    /\ script = "Validator"
    /\ last.op = "check_compliance"
    /\ last.ok
    /\ NRows(input.regs) = 2
    /\ DistinctRequirements
    /\ NRows(data) = 2
    /\ IsNum(data.val["Threshold"][1])
    /\ IsNaN(data.val["Threshold"][2])
    /\ data.val["Compliance"][2] = Str("Non-Compliant")

====
